---- MODULE Spec2Model ----
(***************************************************************************)
(* Model of skills/new-python-project/scripts/init_project.py: the         *)
(* project scaffolder that runs `uv init`, reconciles the canonical files  *)
(* into the target directory and bootstraps git.                           *)
(*                                                                         *)
(* A string is a sequence of fragments (a hyphen is always a fragment of   *)
(* its own), a path is a sequence of strings, and the filesystem is a      *)
(* function from the paths that exist to their nodes.                      *)
(***************************************************************************)
EXTENDS Integers, Sequences, FiniteSets, TLC

VARIABLES fs, fs0, pc, args, uvOnPath, calls, exit, err, writes, rerun

vars == <<fs, fs0, pc, args, uvOnPath, calls, exit, err, writes, rerun>>

(***************************************************************************)
(* Bounds                                                                  *)
(***************************************************************************)
\* longest project name, in fragments
MaxNameLen == 2

\* the fragments project names are built from: "a" stands for a longest run
\* of characters other than the hyphen
NameFragments == {"a", "-"}

\* project names: a leading hyphen would be read as an option by parse_args,
\* and two runs of other characters are never adjacent
Names ==
    {s \in UNION {[1..n -> NameFragments] : n \in 1..MaxNameLen} :
        /\ s[1] # "-"
        /\ \A i \in 1..(Len(s) - 1) : s[i] = "-" \/ s[i + 1] = "-"}

ProjectTypes == {"app", "package", "lib"}

(***************************************************************************)
(* File contents                                                           *)
(***************************************************************************)
Format(tmpl, proj_name, console_name, package_name) ==
    [tmpl |-> tmpl, proj_name |-> proj_name,
     console_name |-> console_name, package_name |-> package_name]

PYTHON_VERSION == Format("PYTHON_VERSION", <<>>, <<>>, <<>>)

PYPROJECT_TEMPLATE(proj_name, console_name, package_name) ==
    Format("PYPROJECT_TEMPLATE", proj_name, console_name, package_name)

README_TEMPLATE(proj_name) == Format("README_TEMPLATE", proj_name, <<>>, <<>>)

INIT_PY_TEMPLATE(proj_name) == Format("INIT_PY_TEMPLATE", proj_name, <<>>, <<>>)

TEST_TEMPLATE == Format("TEST_TEMPLATE", <<>>, <<>>, <<>>)

PY_TYPED_TEXT == Format("# marker file for typed package", <<>>, <<>>, <<>>)

\* content this program did not write (the user's, or an external tool's)
OtherText == Format("other", <<>>, <<>>, <<>>)

(***************************************************************************)
(* Filesystem                                                              *)
(***************************************************************************)
Dir == [type |-> "dir", text |-> Format("", <<>>, <<>>, <<>>)]

File(text) == [type |-> "file", text |-> text]

EmptyFS == [p \in {} |-> Dir]

Parent(p) == SubSeq(p, 1, Len(p) - 1)

Join(p, s) == Append(p, <<s>>)

Exists(f, p) == p = <<>> \/ p \in DOMAIN f

IsDir(f, p) == p = <<>> \/ (p \in DOMAIN f /\ f[p].type = "dir")

IsFile(f, p) == p \in DOMAIN f /\ f[p].type = "file"

\* the default base path; it exists as a directory
DEFAULT_BASE == << <<"base">> >>

\* Path.mkdir(parents=True, exist_ok=True)
RECURSIVE Mkdir(_, _)
Mkdir(f, p) ==
    IF IsDir(f, p) THEN [fs |-> f, err |-> ""]
    ELSE IF Exists(f, p) THEN [fs |-> f, err |-> "FileExistsError"]
    ELSE IF IsFile(f, Parent(p)) THEN [fs |-> f, err |-> "NotADirectoryError"]
    ELSE LET r == Mkdir(f, Parent(p))
         IN  IF r.err # "" THEN r
             ELSE [fs |-> (p :> Dir) @@ r.fs, err |-> ""]

\* q is p or lies below p
Under(p, q) == Len(q) >= Len(p) /\ SubSeq(q, 1, Len(p)) = p

\* a write that clears a directory standing in its way (rmtree, then write)
WriteTextReplacing(st, p, text) ==
    IF st.err # "" THEN st
    ELSE IF IsFile(st.fs, Parent(p)) THEN [st EXCEPT !.err = "NotADirectoryError"]
    ELSE IF ~Exists(st.fs, Parent(p)) THEN [st EXCEPT !.err = "FileNotFoundError"]
    ELSE [fs |-> [q \in {r \in DOMAIN st.fs : ~Under(p, r)} \cup {p} |->
                    IF q = p THEN File(text) ELSE st.fs[q]],
          err |-> "", writes |-> st.writes + 1]

\* Path.write_text(text) on the running state st = [fs, err, writes]
WriteText(st, p, text) ==
    IF st.err # "" THEN st
    ELSE IF IsDir(st.fs, p) THEN [st EXCEPT !.err = "IsADirectoryError"]
    ELSE IF IsFile(st.fs, Parent(p)) THEN [st EXCEPT !.err = "NotADirectoryError"]
    ELSE IF ~Exists(st.fs, Parent(p)) THEN [st EXCEPT !.err = "FileNotFoundError"]
    ELSE [fs |-> (p :> File(text)) @@ st.fs, err |-> "", writes |-> st.writes + 1]

\* a directory made afresh: what it held is removed (rmtree, then mkdir)
MkdirStepFresh(st, p) ==
    IF st.err # "" THEN st
    ELSE LET kept == [q \in {r \in DOMAIN st.fs : ~Under(p, r)} |-> st.fs[q]]
             r == Mkdir(kept, p)
         IN  [fs |-> r.fs, err |-> r.err, writes |-> st.writes]

\* mkdir without exist_ok: an existing directory is an error
MkdirStepExclusive(st, p) ==
    IF st.err # "" THEN st
    ELSE IF Exists(st.fs, p) THEN [st EXCEPT !.err = "FileExistsError"]
    ELSE LET r == Mkdir(st.fs, p)
         IN  [fs |-> r.fs, err |-> r.err, writes |-> st.writes]

MkdirStep(st, p) ==
    IF st.err # "" THEN st
    ELSE LET r == Mkdir(st.fs, p)
         IN  [fs |-> r.fs, err |-> r.err, writes |-> st.writes]

(***************************************************************************)
(* Reconciler                                                              *)
(***************************************************************************)
\* safe_write_text without its existence test
SafeWriteTextAlways(st, path, text, force) == WriteText(st, path, text)

\* safe_write_text: an existing path is skipped unless force, whether it is
\* a file or not
SafeWriteText(st, path, text, force) ==
    IF st.err # "" THEN st
    ELSE IF Exists(st.fs, path)
         THEN IF ~force
              THEN IF IsFile(st.fs, path) THEN st ELSE st
              ELSE WriteText(st, path, text)
         ELSE WriteText(st, path, text)

\* normalize_package_name without the replacement
NormalizePackageNameUnchanged(name) == name

NormalizePackageName(name) ==
    [i \in 1..Len(name) |-> IF name[i] = "-" THEN "_" ELSE name[i]]

ProjectDir(base, name) == Append(base, name)

SrcDir(project_dir, name) ==
    Append(Join(project_dir, "src"), NormalizePackageName(name))

TestsDir(project_dir) == Join(project_dir, "tests")

\* the .python-version write without its existence test
PythonVersionStepAlways(st, project_dir, force) ==
    WriteText(st, Join(project_dir, ".python-version"), PYTHON_VERSION)

\* the inline write of .python-version
PythonVersionStep(st, project_dir, force) ==
    LET py_ver_file == Join(project_dir, ".python-version")
    IN  IF st.err # "" THEN st
        ELSE IF ~Exists(st.fs, py_ver_file) \/ force
             THEN WriteText(st, py_ver_file, PYTHON_VERSION)
             ELSE st

\* the py.typed write without the force override
PyTypedStepNoForce(st, src_dir, project_type, force) ==
    LET py_typed == Join(src_dir, "py.typed")
    IN  IF st.err # "" THEN st
        ELSE IF ~Exists(st.fs, py_typed)
             THEN WriteText(st, py_typed, PY_TYPED_TEXT)
             ELSE st

\* the py.typed write without its existence test
PyTypedStepAlways(st, src_dir, project_type, force) ==
    WriteText(st, Join(src_dir, "py.typed"), PY_TYPED_TEXT)

\* the py.typed write made only for the lib kind
PyTypedStepLibOnly(st, src_dir, project_type, force) ==
    LET py_typed == Join(src_dir, "py.typed")
    IN  IF st.err # "" \/ project_type # "lib" THEN st
        ELSE IF ~Exists(st.fs, py_typed) \/ force
             THEN WriteText(st, py_typed, PY_TYPED_TEXT)
             ELSE st

\* the inline write of py.typed; project_type is not consulted
PyTypedStep(st, src_dir, project_type, force) ==
    LET py_typed == Join(src_dir, "py.typed")
    IN  IF st.err # "" THEN st
        ELSE IF ~Exists(st.fs, py_typed) \/ force
             THEN WriteText(st, py_typed, PY_TYPED_TEXT)
             ELSE st

\* create_standard_files from filesystem f: the filesystem it leaves, the
\* exception that ended it ("" when it returned) and its write_text calls
CreateStandardFiles(f, project_dir, name, project_type, force) ==
    LET s0 == MkdirStep([fs |-> f, err |-> "", writes |-> 0], project_dir)
        s1 == PythonVersionStep(s0, project_dir, force)
        s2 == SafeWriteText(s1, Join(project_dir, "README.md"),
                            README_TEMPLATE(name), force)
        package_name == NormalizePackageName(name)
        console_name == name
        pyproject == PYPROJECT_TEMPLATE(name, console_name, package_name)
        s3 == SafeWriteText(s2, Join(project_dir, "pyproject.toml"),
                            pyproject, force)
        src_dir == Append(Join(project_dir, "src"), package_name)
        s4 == MkdirStep(s3, src_dir)
        s5 == SafeWriteText(s4, Join(src_dir, "__init__.py"),
                            INIT_PY_TEMPLATE(name), force)
        s6 == PyTypedStep(s5, src_dir, project_type, force)
        tests_dir == Join(project_dir, "tests")
        s7 == MkdirStep(s6, tests_dir)
        s8 == SafeWriteText(s7, Join(tests_dir, "test_smoke.py"),
                            TEST_TEMPLATE, force)
    IN  s8

(***************************************************************************)
(* The managed artifacts and their canonical content                       *)
(***************************************************************************)
ArtifactIds == {"python_version", "readme", "pyproject", "init_py",
                "py_typed", "test_smoke"}

ArtifactPath(a, project_dir, name) ==
    CASE a = "python_version" -> Join(project_dir, ".python-version")
      [] a = "readme"         -> Join(project_dir, "README.md")
      [] a = "pyproject"      -> Join(project_dir, "pyproject.toml")
      [] a = "init_py"        -> Join(SrcDir(project_dir, name), "__init__.py")
      [] a = "py_typed"       -> Join(SrcDir(project_dir, name), "py.typed")
      [] a = "test_smoke"     -> Join(TestsDir(project_dir), "test_smoke.py")

Canonical(a, name) ==
    CASE a = "python_version" -> PYTHON_VERSION
      [] a = "readme"         -> README_TEMPLATE(name)
      [] a = "pyproject"      ->
             PYPROJECT_TEMPLATE(name, name, NormalizePackageName(name))
      [] a = "init_py"        -> INIT_PY_TEMPLATE(name)
      [] a = "py_typed"       -> PY_TYPED_TEXT
      [] a = "test_smoke"     -> TEST_TEMPLATE

\* the statements of create_standard_files that provide artifact a: the
\* mkdir of its directory, where it has one, and its write
ArtifactStep(st, a, project_dir, name, project_type, force) ==
    LET src_dir == SrcDir(project_dir, name)
        tests_dir == TestsDir(project_dir)
    IN  CASE a = "python_version" -> PythonVersionStep(st, project_dir, force)
          [] a = "readme" ->
                 SafeWriteText(st, Join(project_dir, "README.md"),
                               README_TEMPLATE(name), force)
          [] a = "pyproject" ->
                 SafeWriteText(st, Join(project_dir, "pyproject.toml"),
                               PYPROJECT_TEMPLATE(name, name,
                                                  NormalizePackageName(name)),
                               force)
          [] a = "init_py" ->
                 SafeWriteText(MkdirStep(st, src_dir), Join(src_dir, "__init__.py"),
                               INIT_PY_TEMPLATE(name), force)
          [] a = "py_typed" ->
                 PyTypedStep(MkdirStep(st, src_dir), src_dir, project_type, force)
          [] a = "test_smoke" ->
                 SafeWriteText(MkdirStep(st, tests_dir),
                               Join(tests_dir, "test_smoke.py"),
                               TEST_TEMPLATE, force)

RECURSIVE ArtifactSteps(_, _, _, _, _, _)
ArtifactSteps(st, order, project_dir, name, project_type, force) ==
    IF order = <<>> THEN st
    ELSE ArtifactSteps(ArtifactStep(st, Head(order), project_dir, name,
                                    project_type, force),
                       Tail(order), project_dir, name, project_type, force)

\* create_standard_files with its artifacts taken in the given order
CreateStandardFilesInOrder(f, project_dir, name, project_type, force, order) ==
    ArtifactSteps(MkdirStep([fs |-> f, err |-> "", writes |-> 0], project_dir),
                  order, project_dir, name, project_type, force)

\* the order of the source
CodeOrder ==
    <<"python_version", "readme", "pyproject", "init_py", "py_typed",
      "test_smoke">>

\* every order of the six artifacts
ArtifactOrders ==
    {o \in [1..6 -> ArtifactIds] : \A i, j \in 1..6 : o[i] = o[j] => i = j}

(***************************************************************************)
(* Prior states of the target directory                                    *)
(***************************************************************************)
\* a path that is absent, a file of foreign content, or a directory
Leaf(p) == {EmptyFS, p :> File(OtherText), p :> Dir}

\* an unrelated file that is absent or present
Unrelated(p) == {EmptyFS, p :> File(OtherText)}

SrcLayouts(project_dir, name) ==
    LET src == Join(project_dir, "src")
        src_dir == SrcDir(project_dir, name)
    IN  {EmptyFS, src :> File(OtherText)} \cup
        {(src :> Dir) @@ k : k \in
            {EmptyFS, src_dir :> File(OtherText)} \cup
            {(src_dir :> Dir) @@ a @@ b @@ c :
                a \in Leaf(Join(src_dir, "__init__.py")),
                b \in Leaf(Join(src_dir, "py.typed")),
                c \in Unrelated(Join(src_dir, "helper.py"))}}

TestsLayouts(project_dir) ==
    LET tests_dir == TestsDir(project_dir)
    IN  {EmptyFS, tests_dir :> File(OtherText)} \cup
        {(tests_dir :> Dir) @@ a @@ c :
            a \in Leaf(Join(tests_dir, "test_smoke.py")),
            c \in Unrelated(Join(tests_dir, "conftest.py"))}

\* the unrelated files of f are in every directory of f that can hold one, or
\* in none
UnrelatedAlike(f, project_dir, name) ==
    LET u == {p \in {Join(project_dir, "notes.txt"),
                     Join(SrcDir(project_dir, name), "helper.py"),
                     Join(TestsDir(project_dir), "conftest.py")} :
                 IsDir(f, Parent(p))}
    IN  u \subseteq DOMAIN f \/ u \cap DOMAIN f = {}

Layouts(base, name) ==
    LET project_dir == ProjectDir(base, name)
        b == (base :> Dir)
    IN  {b, (project_dir :> File(OtherText)) @@ b} \cup
        {f \in
            {(project_dir :> Dir) @@ b @@ v @@ r @@ m @@ s @@ t @@ x :
                v \in Leaf(Join(project_dir, ".python-version")),
                r \in Leaf(Join(project_dir, "README.md")),
                m \in Leaf(Join(project_dir, "pyproject.toml")),
                s \in SrcLayouts(project_dir, name),
                t \in TestsLayouts(project_dir),
                x \in Unrelated(Join(project_dir, "notes.txt"))} :
            UnrelatedAlike(f, project_dir, name)}

(***************************************************************************)
(* The reconciler on its own: create_standard_files is called twice on an  *)
(* arbitrary prior state of the target directory                           *)
(***************************************************************************)
InitReconciler ==
    /\ args \in [type : ProjectTypes, name : Names, path : {DEFAULT_BASE},
                 force : BOOLEAN]
    /\ fs \in Layouts(args.path, args.name)
    /\ fs0 = fs
    /\ pc = "first_call"
    /\ uvOnPath = TRUE
    /\ calls = <<>>
    /\ exit = 0
    /\ err = ""
    /\ writes = 0
    /\ rerun = FALSE

Reconcile(from, to) ==
    /\ pc = from
    /\ LET r == CreateStandardFiles(fs, ProjectDir(args.path, args.name),
                                    args.name, args.type, args.force)
       IN  /\ fs' = r.fs
           /\ err' = r.err
           /\ writes' = r.writes
    /\ pc' = to
    /\ UNCHANGED <<fs0, args, uvOnPath, rerun, calls, exit>>

FirstCall == Reconcile("first_call", "second_call")

SecondCall == Reconcile("second_call", "called_twice")

NextReconciler == FirstCall \/ SecondCall

SpecReconciler == InitReconciler /\ [][NextReconciler]_vars

TypeOKReconciler == pc \in {"first_call", "second_call", "called_twice"}

(***************************************************************************)
(* Subprocesses                                                            *)
(***************************************************************************)
\* exit statuses an external command may return
ReturnCodes == {0, 1}

\* subprocess.call in place of check_call: the status is dropped
CheckCallIgnoringStatus(rc) == ""

\* subprocess.check_call raises exactly on a non-zero exit status
CheckCall(rc) == IF rc # 0 THEN "CalledProcessError" ELSE ""

\* one entry of the run's subprocess log: what was run, where, and its status
Call(cmd, cwd, rc) == [cmd |-> cmd, cwd |-> cwd, rc |-> rc]

\* ensure_uv_available without its SystemExit
UvMissingIgnored(onPath) == FALSE

\* ensure_uv_available: shutil.which("uv") is None
UvMissing(onPath) == ~onPath

\* init_with_uv without the forwarding of --force
InitWithUvCmdNoForce(project_type, name, force) ==
    LET c0 == << <<"uv">>, <<"init">> >>
    IN  IF project_type = "package" THEN c0 \o << <<"--package">>, name >>
        ELSE IF project_type = "lib" THEN c0 \o << <<"--lib">>, name >>
        ELSE c0 \o << name >>

\* the argument list init_with_uv builds
InitWithUvCmd(project_type, name, force) ==
    LET c0 == << <<"uv">>, <<"init">> >>
        c1 == IF project_type = "package" THEN c0 \o << <<"--package">>, name >>
              ELSE IF project_type = "lib" THEN c0 \o << <<"--lib">>, name >>
              ELSE c0 \o << name >>
    IN  IF force THEN c1 \o << <<"--force">> >> ELSE c1

GitInitCmd == << <<"git">>, <<"init">> >>

GitAddCmd == << <<"git">>, <<"add">>, <<"-A">> >>

GitCommitCmd ==
    << <<"git">>, <<"commit">>, <<"-m">>, <<"chore: initial commit">> >>

GitDir(project_dir) == Join(project_dir, ".git")

GitIndex(project_dir) == Join(GitDir(project_dir), "index")

GitHead(project_dir) ==
    Join(Join(Join(GitDir(project_dir), "refs"), "heads"), "main")

\* init_git without its early return
GitAlreadyInitializedNever(f, project_dir) == FALSE

\* init_git's test for an initialized repository
GitAlreadyInitialized(f, project_dir) == Exists(f, GitDir(project_dir))

HasInitialCommit(f, project_dir) == IsFile(f, GitHead(project_dir))

\* create node at p, with its parents, where nothing is in the way
Put(f, p, node) ==
    IF Exists(f, p) \/ Mkdir(f, Parent(p)).err # "" THEN f
    ELSE (p :> node) @@ Mkdir(f, Parent(p)).fs

\* the paths uv init may create; which of them it does is its own business
UvMayCreate(project_dir, name) ==
    {Join(project_dir, "README.md"), Join(project_dir, "pyproject.toml"),
     Join(SrcDir(project_dir, name), "__init__.py")}

\* the filesystems uv init may leave behind, whatever its exit status
UvOutcomes(f, project_dir, name) ==
    {f} \cup
    {LET f0 == Put(f, project_dir, Dir)
         f1 == IF Join(project_dir, "README.md") \in S
               THEN Put(f0, Join(project_dir, "README.md"), File(OtherText))
               ELSE f0
         f2 == IF Join(project_dir, "pyproject.toml") \in S
               THEN Put(f1, Join(project_dir, "pyproject.toml"), File(OtherText))
               ELSE f1
         f3 == IF Join(SrcDir(project_dir, name), "__init__.py") \in S
               THEN Put(f2, Join(SrcDir(project_dir, name), "__init__.py"),
                        File(OtherText))
               ELSE f2
     IN  f3 : S \in SUBSET UvMayCreate(project_dir, name)}

\* git init: a successful one leaves the control directory
GitInitOutcomes(f, project_dir, rc) ==
    IF rc = 0 THEN {Put(f, GitDir(project_dir), Dir)}
    ELSE {f, Put(f, GitDir(project_dir), Dir)}

\* git add -A: a successful one leaves the index
GitAddOutcomes(f, project_dir, rc) ==
    IF rc = 0 THEN {Put(f, GitIndex(project_dir), File(OtherText))}
    ELSE {f}

\* git commit: a successful one leaves a commit on the branch
GitCommitOutcomes(f, project_dir, rc) ==
    IF rc = 0 THEN {Put(f, GitHead(project_dir), File(OtherText))}
    ELSE {f}

(***************************************************************************)
(* The tool: main, run after run on the same target directory              *)
(***************************************************************************)
\* most entries under the base path before the first run
MaxPreexisting == 2

InitLayouts(base, name) ==
    {f \in Layouts(base, name) : Cardinality(DOMAIN f) <= MaxPreexisting + 1}

\* main with the reconciler called before uv init
AfterStageReordered(p) ==
    CASE p = "ensure_uv_available"   -> "create_standard_files"
      [] p = "create_standard_files" -> "init_with_uv"
      [] p = "init_with_uv"          -> "init_git"

\* main without its call of create_standard_files
AfterStageNoReconcile(p) ==
    CASE p = "ensure_uv_available"   -> "init_with_uv"
      [] p = "init_with_uv"          -> "init_git"
      [] p = "create_standard_files" -> "init_git"

\* the order of main's calls
AfterStage(p) ==
    CASE p = "ensure_uv_available"   -> "init_with_uv"
      [] p = "init_with_uv"          -> "create_standard_files"
      [] p = "create_standard_files" -> "init_git"

Init ==
    /\ args \in [type : ProjectTypes, name : Names, path : {DEFAULT_BASE},
                 force : BOOLEAN]
    /\ fs \in InitLayouts(args.path, args.name)
    /\ fs0 = fs
    /\ pc = "ensure_uv_available"
    /\ uvOnPath \in BOOLEAN
    /\ calls = <<>>
    /\ exit = 0
    /\ err = ""
    /\ writes = 0
    /\ rerun = FALSE

\* the process ends: an uncaught exception or SystemExit(1) gives status 1
Terminate(e) ==
    /\ pc' = "exited"
    /\ err' = e
    /\ exit' = IF e = "" THEN 0 ELSE 1

EnsureUvAvailable ==
    /\ pc = "ensure_uv_available"
    /\ IF UvMissing(uvOnPath)
       THEN Terminate("SystemExit")
       ELSE pc' = AfterStage(pc) /\ UNCHANGED <<err, exit>>
    /\ UNCHANGED <<fs, fs0, args, uvOnPath, rerun, calls, writes>>

InitWithUv ==
    /\ pc = "init_with_uv"
    /\ \E rc \in ReturnCodes :
         /\ calls' = Append(calls, Call(InitWithUvCmd(args.type, args.name,
                                                      args.force),
                                        args.path, rc))
         /\ fs' \in UvOutcomes(fs, ProjectDir(args.path, args.name), args.name)
         /\ IF CheckCall(rc) # ""
            THEN Terminate(CheckCall(rc))
            ELSE pc' = AfterStage(pc) /\ UNCHANGED <<err, exit>>
    /\ UNCHANGED <<fs0, args, uvOnPath, rerun, writes>>

CreateStandardFilesStage ==
    /\ pc = "create_standard_files"
    /\ LET r == CreateStandardFiles(fs, ProjectDir(args.path, args.name),
                                    args.name, args.type, args.force)
       IN  /\ fs' = r.fs
           /\ writes' = r.writes
           /\ IF r.err # ""
              THEN Terminate(r.err)
              ELSE pc' = AfterStage(pc) /\ UNCHANGED <<err, exit>>
    /\ UNCHANGED <<fs0, args, uvOnPath, rerun, calls>>

InitGit ==
    /\ pc = "init_git"
    /\ LET project_dir == ProjectDir(args.path, args.name)
       IN  IF GitAlreadyInitialized(fs, project_dir)
           THEN /\ Terminate("")
                /\ UNCHANGED <<fs, calls>>
           ELSE \E rc \in ReturnCodes :
                     /\ calls' = Append(calls, Call(GitInitCmd, project_dir, rc))
                     /\ fs' \in GitInitOutcomes(fs, project_dir, rc)
                     /\ IF CheckCall(rc) # ""
                        THEN Terminate(CheckCall(rc))
                        ELSE pc' = "git_add" /\ UNCHANGED <<err, exit>>
    /\ UNCHANGED <<fs0, args, uvOnPath, rerun, writes>>

GitAdd ==
    /\ pc = "git_add"
    /\ LET project_dir == ProjectDir(args.path, args.name)
       IN  \E rc \in ReturnCodes :
                /\ calls' = Append(calls, Call(GitAddCmd, project_dir, rc))
                /\ fs' \in GitAddOutcomes(fs, project_dir, rc)
                /\ IF CheckCall(rc) # ""
                   THEN Terminate(CheckCall(rc))
                   ELSE pc' = "git_commit" /\ UNCHANGED <<err, exit>>
    /\ UNCHANGED <<fs0, args, uvOnPath, rerun, writes>>

GitCommit ==
    /\ pc = "git_commit"
    /\ LET project_dir == ProjectDir(args.path, args.name)
       IN  \E rc \in ReturnCodes :
                /\ calls' = Append(calls, Call(GitCommitCmd, project_dir, rc))
                /\ fs' \in GitCommitOutcomes(fs, project_dir, rc)
                /\ Terminate(CheckCall(rc))
    /\ UNCHANGED <<fs0, args, uvOnPath, rerun, writes>>

\* the operator runs the tool again on the same target; rerun tells a run that
\* repeats the kind of a run that has just ended with status 0
Rerun ==
    /\ pc = "exited"
    /\ args' \in [type : ProjectTypes, name : {args.name}, path : {args.path},
                  force : BOOLEAN]
    /\ uvOnPath' \in BOOLEAN
    /\ fs0' = fs
    /\ pc' = "ensure_uv_available"
    /\ calls' = <<>>
    /\ exit' = 0
    /\ err' = ""
    /\ writes' = 0
    /\ rerun' = (exit = 0 /\ args'.type = args.type)
    /\ UNCHANGED fs

Next ==
    \/ EnsureUvAvailable
    \/ InitWithUv
    \/ CreateStandardFilesStage
    \/ InitGit
    \/ GitAdd
    \/ GitCommit
    \/ Rerun

Spec == Init /\ [][Next]_vars

TypeOK ==
    /\ pc \in {"ensure_uv_available", "init_with_uv", "create_standard_files",
               "init_git", "git_add", "git_commit", "exited"}
    /\ exit \in {0, 1}
    /\ args.type \in ProjectTypes
    /\ args.name \in Names
    /\ \A p \in DOMAIN fs : IsDir(fs, Parent(p))

(***************************************************************************)
(* Properties                                                              *)
(***************************************************************************)
TargetDir == ProjectDir(args.path, args.name)

PyTypedPath == ArtifactPath("py_typed", TargetDir, args.name)

\* the target directory exists and has an entry
NonEmptyDir(f, project_dir) ==
    /\ IsDir(f, project_dir)
    /\ \E p \in DOMAIN f : Parent(p) = project_dir

\* the git commands of the run's subprocess log, in order
GitCmds ==
    LET g == SelectSeq(calls, LAMBDA c : c.cmd[1] = <<"git">>)
    IN  [i \in 1..Len(g) |-> g[i].cmd]

GitSequence == <<GitInitCmd, GitAddCmd, GitCommitCmd>>

IsPrefix(s, t) == Len(s) <= Len(t) /\ s = SubSeq(t, 1, Len(s))

\* the stage of main a position belongs to
StageOf(p) ==
    CASE p = "ensure_uv_available"   -> 1
      [] p = "init_with_uv"          -> 2
      [] p = "create_standard_files" -> 3
      [] p \in {"init_git", "git_add", "git_commit"} -> 4
      [] OTHER -> 0

\* C1: a run started with force=false on an existing, non-empty target
\* directory invokes no subprocess, changes nothing on disk, goes no further
\* than the preflight and ends with a non-zero status.
C1_NonEmptyRefusal ==
    (NonEmptyDir(fs0, TargetDir) /\ ~args.force) =>
        /\ calls = <<>>
        /\ fs = fs0
        /\ pc \in {"ensure_uv_available", "exited"}
        /\ (pc = "exited" => exit # 0)

C3_Idempotence ==
    [][(pc = "second_call" /\ ~args.force) => (fs' = fs /\ writes' = 0)]_vars

C3_Witness ==
    /\ pc = "called_twice"
    /\ ~args.force
    /\ fs # fs0
    /\ err = ""
    /\ writes = 0

\* the directories that hold the managed artifacts are absent or directories
ContainersFree(f, project_dir, name) ==
    \A d \in {project_dir, Join(project_dir, "src"), SrcDir(project_dir, name),
              TestsDir(project_dir)} : ~Exists(f, d) \/ IsDir(f, d)

\* C4: after create_standard_files with force=true every skip-if-exists
\* artifact (the typed marker for the lib kind) is a file of canonical
\* content, whatever was at the managed paths before.
C4_ForceSupremacy ==
    (pc = "second_call" /\ args.force
        /\ ContainersFree(fs0, TargetDir, args.name)) =>
        \A a \in ArtifactIds :
            (a = "py_typed" => args.type = "lib") =>
                /\ IsFile(fs, ArtifactPath(a, TargetDir, args.name))
                /\ fs[ArtifactPath(a, TargetDir, args.name)].text
                       = Canonical(a, args.name)

C6_ToolUnavailable ==
    ~uvOnPath =>
        /\ pc \in {"ensure_uv_available", "exited"}
        /\ calls = <<>>
        /\ fs = fs0
        /\ (pc = "exited" => exit # 0)

C6_Witness ==
    /\ ~uvOnPath
    /\ pc = "exited"
    /\ exit = 1
    /\ err = "SystemExit"

\* C7: a subprocess that exits non-zero is the last one of its run and the
\* run has ended with a non-zero status; the step that ends a run in failure
\* removes no path that existed before it.
C7_FailFast ==
    /\ [](\A i \in 1..Len(calls) :
            calls[i].rc # 0 => (i = Len(calls) /\ pc = "exited" /\ exit # 0))
    /\ [][(pc' = "exited" /\ exit' # 0) => DOMAIN fs \subseteq DOMAIN fs']_vars

C7_Witness ==
    /\ pc = "exited" /\ exit # 0
    /\ Len(calls) = 3
    /\ calls[3].cmd = GitAddCmd
    /\ calls[3].rc # 0
    /\ IsDir(fs, GitDir(TargetDir))
    /\ ~Exists(fs0, TargetDir)

\* C8: within a run the stage only moves from one stage to the next one, and
\* only when nothing failed; stages 1 to 3 are left by the step that runs
\* them; a run begins at the preflight and only after the previous run ended.
C8_StageOrdering ==
    [][/\ (pc' # pc /\ pc' = "ensure_uv_available") => pc = "exited"
       /\ (pc # "exited" /\ pc' # "exited" /\ StageOf(pc') # StageOf(pc)) =>
              (StageOf(pc') = StageOf(pc) + 1 /\ err' = "" /\ exit' = 0)
       /\ StageOf(pc) \in 1..3 =>
              (pc' = "exited" \/ StageOf(pc') = StageOf(pc) + 1)
       /\ StageOf(pc) = 4 => (pc' = "exited" \/ StageOf(pc') = 4)]_vars

C8_Witness ==
    /\ pc = "exited" /\ exit = 0
    /\ Len(calls) = 4
    /\ writes > 0

\* C9 as stated: a run in which init_git invoked anything has invoked
\* exactly git init, git add -A, git commit by the time it has ended.
C9_ExactlyThree ==
    (pc = "exited" /\ GitCmds # <<>>) => GitCmds = GitSequence

\* C9 amended: with .git present init_git invokes nothing and the run ends
\* with status 0; otherwise it invokes git init, and the git commands of a
\* run are git init, git add -A, git commit in that order, each at most once
\* and in the target directory, cut short only by a command that exits
\* non-zero; all three have run when the run ends with status 0.
C9_GitSequence ==
    /\ [](/\ IsPrefix(GitCmds, GitSequence)
          /\ \A i \in 1..Len(calls) :
                calls[i].cmd[1] = <<"git">> => calls[i].cwd = TargetDir
          /\ (pc = "exited" /\ GitCmds # <<>> /\ GitCmds # GitSequence) =>
                calls[Len(calls)].rc # 0
          /\ (pc = "exited" /\ exit = 0) => GitCmds \in {<<>>, GitSequence})
    /\ [][pc = "init_git" =>
            IF Exists(fs, GitDir(TargetDir))
            THEN calls' = calls /\ fs' = fs /\ pc' = "exited" /\ exit' = 0
            ELSE Len(calls') = Len(calls) + 1
                 /\ calls'[Len(calls')].cmd = GitInitCmd]_vars

C9_Witness ==
    /\ pc = "exited" /\ exit = 0
    /\ GitCmds = GitSequence
    /\ \A i \in 1..Len(calls) : calls[i].rc = 0

\* C10: a run that ended with status 0 has left the target directory a
\* repository with an initial commit.
C10_CommittedOnSuccess ==
    (pc = "exited" /\ exit = 0) =>
        /\ IsDir(fs, GitDir(TargetDir))
        /\ HasInitialCommit(fs, TargetDir)

ManifestPath == ArtifactPath("pyproject", TargetDir, args.name)

\* the number of arguments of cmd equal to x
Occurrences(cmd, x) == Cardinality({i \in 1..Len(cmd) : cmd[i] = x})

\* C12: in the manifest create_standard_files has written, the package
\* identifier of the entry point is the name with each hyphen replaced by an
\* underscore (same length, other fragments unchanged, no hyphen left), the
\* console name is the name itself, and the package directory carries the
\* package identifier.
C12_NameDerivation ==
    (pc = "second_call" /\ err = "" /\ ~Exists(fs0, ManifestPath)) =>
        LET m == fs[ManifestPath].text
            pkg == m.package_name
        IN  /\ m.console_name = args.name
            /\ m.proj_name = args.name
            /\ Len(pkg) = Len(args.name)
            /\ \A i \in 1..Len(pkg) :
                 /\ pkg[i] # "-"
                 /\ (args.name[i] = "-" => pkg[i] = "_")
                 /\ (args.name[i] # "-" => pkg[i] = args.name[i])
            /\ IsDir(fs, Append(Join(TargetDir, "src"), pkg))

C12_Witness ==
    /\ pc = "second_call" /\ err = ""
    /\ ~Exists(fs0, ManifestPath)
    /\ args.name = <<"a", "-">>
    /\ fs[ManifestPath].text.console_name = <<"a", "-">>
    /\ fs[ManifestPath].text.package_name = <<"a", "_">>

\* C13: the uv init command of a run names the package flag exactly for the
\* package kind, the lib flag exactly for the lib kind, the force flag
\* exactly with force, the project name once, and runs in the base path.
C13_BootstrapCommand ==
    Len(calls) >= 1 =>
        LET cmd == calls[1].cmd
        IN  /\ SubSeq(cmd, 1, 2) = << <<"uv">>, <<"init">> >>
            /\ (Occurrences(cmd, <<"--package">>) = 1 <=> args.type = "package")
            /\ (Occurrences(cmd, <<"--lib">>) = 1 <=> args.type = "lib")
            /\ Occurrences(cmd, <<"--package">>) <= 1
            /\ Occurrences(cmd, <<"--lib">>) <= 1
            /\ (args.type = "app" =>
                  Occurrences(cmd, <<"--package">>)
                      + Occurrences(cmd, <<"--lib">>) = 0)
            /\ Occurrences(cmd, args.name) = 1
            /\ (Occurrences(cmd, <<"--force">>) = 1 <=> args.force)
            /\ Occurrences(cmd, <<"--force">>) <= 1
            /\ calls[1].cwd = args.path

C13_Witness ==
    /\ Len(calls) >= 1
    /\ args.type = "lib" /\ args.force
    /\ calls[1].cmd = << <<"uv">>, <<"init">>, <<"--lib">>, args.name,
                         <<"--force">> >>

\* the managed file paths a directory occupies in f
ConflictingArtifacts(f, project_dir, name) ==
    {a \in ArtifactIds : IsDir(f, ArtifactPath(a, project_dir, name))}

\* C14: when a directory occupies a managed file path, create_standard_files
\* raises nothing for either value of force, and with force=false it leaves
\* that path as it was and still provides every other artifact.
C14_SoftPathConflict ==
    (pc = "second_call"
        /\ ContainersFree(fs0, TargetDir, args.name)
        /\ ConflictingArtifacts(fs0, TargetDir, args.name) # {}) =>
        /\ err = ""
        /\ ~args.force =>
             \A a \in ArtifactIds :
                LET p == ArtifactPath(a, TargetDir, args.name)
                IN  IF a \in ConflictingArtifacts(fs0, TargetDir, args.name)
                    THEN fs[p] = fs0[p]
                    ELSE Exists(fs, p)

\* C15: no step removes a path or turns a directory into a file or a file
\* into a directory: what exists before a step exists after it with the same
\* type.
C15_NothingDeleted ==
    [][\A p \in DOMAIN fs : p \in DOMAIN fs' /\ fs'[p].type = fs[p].type]_vars

C15_Witness ==
    /\ pc = "init_git"
    /\ args.force
    /\ writes = 6
    /\ IsFile(fs0, ArtifactPath("readme", TargetDir, args.name))
    /\ fs0[ArtifactPath("readme", TargetDir, args.name)].text = OtherText
    /\ fs[ArtifactPath("readme", TargetDir, args.name)].text
           = README_TEMPLATE(args.name)
    /\ DOMAIN fs0 \subseteq DOMAIN fs

DirsOf(f) == {p \in DOMAIN f : f[p].type = "dir"}

\* the directories create_standard_files makes
ManagedDirs(project_dir, name) ==
    {project_dir, Join(project_dir, "src"), SrcDir(project_dir, name),
     TestsDir(project_dir)}

\* C16: for either value of force, create_standard_files returns whenever no
\* file stands where a directory is needed (and, with force, no directory
\* where a file is written); when it has returned the target directory,
\* src/<package> and tests are directories; it keeps every directory it
\* found, makes no directory but these and their parent src, and changes no
\* entry other than the managed files.
C16_DirectoryArtifacts ==
    pc = "second_call" =>
        /\ (ContainersFree(fs0, TargetDir, args.name)
              /\ (args.force =>
                    ConflictingArtifacts(fs0, TargetDir, args.name) = {}))
               => err = ""
        /\ err = "" =>
               /\ IsDir(fs, TargetDir)
               /\ IsDir(fs, SrcDir(TargetDir, args.name))
               /\ IsDir(fs, TestsDir(TargetDir))
        /\ DirsOf(fs0) \subseteq DirsOf(fs)
        /\ DirsOf(fs) \ DirsOf(fs0) \subseteq ManagedDirs(TargetDir, args.name)
        /\ \A p \in DOMAIN fs0 :
              (\A a \in ArtifactIds : p # ArtifactPath(a, TargetDir, args.name))
                  => fs[p] = fs0[p]

C16_Witness ==
    /\ pc = "second_call" /\ err = ""
    /\ args.force
    /\ IsDir(fs0, TestsDir(TargetDir))
    /\ IsFile(fs0, Join(TargetDir, "notes.txt"))
    /\ ~Exists(fs0, Join(TargetDir, "src"))
    /\ IsDir(fs, SrcDir(TargetDir, args.name))

\* the source's order of the artifacts gives create_standard_files itself
CodeOrderIsTheCode ==
    pc = "second_call" =>
        LET r == CreateStandardFilesInOrder(fs0, TargetDir, args.name,
                                            args.type, args.force, CodeOrder)
        IN  r.fs = fs /\ r.err = err /\ r.writes = writes

\* C17: whatever the order in which the artifacts are processed, the
\* reconciler leaves the filesystem the source's order leaves.
C17_OrderIndependence ==
    pc = "second_call" =>
        \A o \in ArtifactOrders :
            CreateStandardFilesInOrder(fs0, TargetDir, args.name, args.type,
                                       args.force, o).fs = fs

\* C18: whenever git add -A or git commit is about to run or has run in a
\* run, every managed artifact path exists in the target directory.
C18_CommitCoversScaffold ==
    (pc \in {"git_add", "git_commit"} \/ Len(GitCmds) >= 2) =>
        \A a \in ArtifactIds :
            Exists(fs, ArtifactPath(a, TargetDir, args.name))

C18_Witness ==
    /\ pc = "git_add"
    /\ ~Exists(fs0, TargetDir)
    /\ writes = 6
    /\ \A a \in ArtifactIds : IsFile(fs, ArtifactPath(a, TargetDir, args.name))

ArtifactPaths(project_dir, name) ==
    {ArtifactPath(a, project_dir, name) : a \in ArtifactIds}

\* C19: for either value of force, every path that existed before
\* create_standard_files and is not one of the six managed file paths is
\* there afterwards with the content it had.
C19_Frame ==
    pc = "second_call" =>
        \A p \in DOMAIN fs0 \ ArtifactPaths(TargetDir, args.name) :
            p \in DOMAIN fs /\ fs[p] = fs0[p]

C19_Witness ==
    /\ pc = "second_call" /\ err = ""
    /\ args.force
    /\ writes = 6
    /\ IsFile(fs, Join(TargetDir, "notes.txt"))
    /\ IsFile(fs, Join(SrcDir(TargetDir, args.name), "helper.py"))
    /\ IsFile(fs, Join(TestsDir(TargetDir), "conftest.py"))
    /\ fs # fs0

PythonVersionPath == ArtifactPath("python_version", TargetDir, args.name)

\* C20: on every filesystem and for both values of force, the inline steps
\* for .python-version and py.typed do what safe_write_text does on the same
\* path and text, and they attempt the write exactly when the path does not
\* exist or force is set.
C20_UniformPolicy ==
    LET st == [fs |-> fs, err |-> "", writes |-> 0]
        src_dir == SrcDir(TargetDir, args.name)
    IN  \A force \in BOOLEAN :
            /\ PythonVersionStep(st, TargetDir, force)
                   = SafeWriteText(st, PythonVersionPath, PYTHON_VERSION, force)
            /\ PyTypedStep(st, src_dir, args.type, force)
                   = SafeWriteText(st, PyTypedPath, PY_TYPED_TEXT, force)
            /\ (PythonVersionStep(st, TargetDir, force) # st)
                   <=> (~Exists(fs, PythonVersionPath) \/ force)
            /\ (PyTypedStep(st, src_dir, args.type, force) # st)
                   <=> (~Exists(fs, PyTypedPath) \/ force)

C20_Witness ==
    /\ pc = "second_call" /\ err = ""
    /\ ~args.force
    /\ IsDir(fs0, PythonVersionPath)
    /\ IsDir(fs, PythonVersionPath)
    /\ IsFile(fs0, PyTypedPath)
    /\ fs[PyTypedPath] = fs0[PyTypedPath]
    /\ ~Exists(fs0, ArtifactPath("readme", TargetDir, args.name))

====
